---- MODULE Spec2Model ----
(***************************************************************************)
(* Model of adaptdk/aide-macros:                                           *)
(*   - the aide_docs attribute macro (aide-docs/src/lib.rs, and the older  *)
(*     generation in src/lib.rs),                                          *)
(*   - TagApiRouter and the response adapters (aide-axum-utils/src/lib.rs).*)
(* Strings are sequences of one-character strings, so that trimming,       *)
(* joining, formatting and re-tokenizing are computed and not assumed.     *)
(***************************************************************************)
EXTENDS Integers, Sequences, FiniteSets, TLC

VARIABLES
    crate,              \* which generation of aide_docs expands the item
    item_attrs,         \* input.attrs: the handler's attributes
    item_ident,         \* input.sig.ident: the handler's name
    args,               \* the attribute's arguments, a list of nested metas
    pc,                 \* position inside aide_docs / what became of the expansion
    doc_lines,          \* let doc_lines
    summary,            \* let (summary, _)
    description,        \* let (_, description)
    attrs,              \* let mut attrs: AideDocsAttributes
    parse_error,        \* the syn error parse_macro_input! reports, or NoError
    tag_snippet,        \* let tag_snippet (tag_method in the older generation)
    deprecated_snippet, \* let deprecated_snippet
    aide_docs_fn,       \* let aide_docs_fn
    expanded,           \* the generated companion function, or NoFn
    op0,                \* the operation the closure is handed
    op,                 \* the operation the closure returns
    calls,              \* the calls the closure made on the operation, in order
    r_pc,               \* the Tagged Router: "building", "converted" or "panicked"
    r_tag,              \* TagApiRouter.tag
    r_inner,            \* TagApiRouter.inner: the routes' documentation entries
    r_out,              \* the ApiRouter the conversion returned, or None
    r_calls,            \* how many api_route and nest calls were made
    x_pc,               \* a handler's return type: "declared", "documented", "responded"
    x_type,             \* the handler's return type
    x_docs,             \* what inferred_responses reported for it
    x_value,            \* the value the handler returned last, or None
    x_resp              \* the response into_response made of it, or None

macroVars == <<crate, item_attrs, item_ident, args, pc, doc_lines, summary,
               description, attrs, parse_error, tag_snippet, deprecated_snippet,
               aide_docs_fn, expanded, op0, op, calls>>

routerVars == <<r_pc, r_tag, r_inner, r_out, r_calls>>

respVars == <<x_pc, x_type, x_docs, x_value, x_resp>>

vars == <<macroVars, routerVars, respVars>>

----------------------------------------------------------------------------
(* Characters and strings                                                  *)

SP == " "
NL == "\n"
DQ == "\""
BS == "\\"

\* char::is_whitespace, on the characters the model draws from.
is_whitespace(c) == c \in {SP, NL}

RECURSIVE trim_start(_)
trim_start(s) ==
    IF s = <<>> THEN s
    ELSE IF is_whitespace(Head(s)) THEN trim_start(Tail(s)) ELSE s

RECURSIVE trim_end(_)
trim_end(s) ==
    IF s = <<>> THEN s
    ELSE IF is_whitespace(s[Len(s)]) THEN trim_end(SubSeq(s, 1, Len(s) - 1)) ELSE s

\* str::trim: strip leading and trailing whitespace, keep the inside.
trim(s) == trim_end(trim_start(s))

\* [String]::join(sep)
RECURSIVE join(_, _)
join(ss, sep) ==
    IF ss = <<>> THEN <<>>
    ELSE IF Len(ss) = 1 THEN ss[1]
    ELSE ss[1] \o sep \o join(Tail(ss), sep)

\* Option<T>: None is the empty sequence, Some(x) the one-element sequence.
None == <<>>
Some(x) == <<x>>

----------------------------------------------------------------------------
(* Documentation extraction (aide-docs/src/lib.rs:104-141; the older       *)
(* generation, src/lib.rs:87-124, has the same two functions verbatim)     *)

\* An attribute as syn parses it: its path, the shape of its meta and, for a
\* name-value meta, the kind of literal on the right and the literal's value.
DocAttr(v)    == [path |-> "doc", meta |-> "NameValue", lit |-> "Str", value |-> v]

\* If the doc comment isn't empty, trim it and add it to `lines`; every other
\* attribute is skipped.
RECURSIVE collect_doc_comments(_)
collect_doc_comments(as) ==
    IF as = <<>> THEN <<>>
    ELSE LET attr == Head(as)
             rest == collect_doc_comments(Tail(as))
         IN IF attr.path # "doc" THEN rest
            ELSE IF attr.meta = "NameValue" /\ attr.lit = "Str"
                 THEN IF attr.value # <<>>
                      THEN <<trim(attr.value)>> \o rest
                      ELSE rest
                 ELSE rest

\* A split that joins the description's lines with spaces.
split_joined_with_spaces(lines) ==
    IF lines = <<>> THEN <<<<>>, <<>>>>
    ELSE <<Head(lines), join(Tail(lines), <<SP>>)>>

\* lines.split_first(): the first string is the summary, the rest joined with
\* newlines the description; both empty for no lines.
split_summary_description(lines) ==
    IF lines = <<>> THEN <<<<>>, <<>>>>
    ELSE <<Head(lines), join(Tail(lines), <<NL>>)>>

----------------------------------------------------------------------------
(* Argument parsing                                                        *)

\* A nested meta as syn::meta::parser hands it to the closure: the path (its
\* segments) and what follows it: nothing, `= "<lit>"` or `= <number>`.
Meta(path, value, lit) == [path |-> path, value |-> value, lit |-> lit]

\* Path::is_ident
is_ident(path, name) == path = <<name>>

\* Path::get_ident().map(|i| i.to_string()).unwrap_or_default(): the one
\* segment of a path that is an identifier, the empty string otherwise.
ident_or_default(path) == IF Len(path) = 1 THEN <<path[1]>> ELSE <<>>

Ok(self)  == [ok |-> TRUE,  self |-> self, error |-> None, consumed |-> TRUE]
Err(self, msg) == [ok |-> FALSE, self |-> self, error |-> Some(msg), consumed |-> TRUE]

\* An error message: its fixed text and the name interpolated into it.
Message(text, ident) == [text |-> text, ident |-> ident]

\* format!("unsupported property '{ident}'")
unsupported_property(ident) == Message("unsupported property '{ident}'", ident)

\* AideDocsAttributes::default()
AideDocsAttributes_default == [tag |-> None, deprecated |-> FALSE]

\* A parse that lets a key it does not know pass.
parse_ignoring_unknown_keys(self, meta) ==
    IF is_ident(meta.path, "tag")
    THEN IF meta.value = "None" THEN Err(self, Message("expected =", <<>>))
         ELSE IF meta.value # "Str" THEN Err(self, Message("expected string literal", <<>>))
         ELSE Ok([self EXCEPT !.tag = Some(meta.lit)])
    ELSE IF is_ident(meta.path, "deprecated")
    THEN [Ok([self EXCEPT !.deprecated = TRUE]) EXCEPT !.consumed = FALSE]
    ELSE [Ok(self) EXCEPT !.consumed = FALSE]

\* AideDocsAttributes::parse (aide-docs). `consumed` tells whether the closure
\* read the value that follows the path.
AideDocsAttributes_parse(self, meta) ==
    IF is_ident(meta.path, "tag")
    THEN IF meta.value = "None" THEN Err(self, Message("expected =", <<>>))
         ELSE IF meta.value # "Str" THEN Err(self, Message("expected string literal", <<>>))
         ELSE Ok([self EXCEPT !.tag = Some(meta.lit)])
    ELSE IF is_ident(meta.path, "deprecated")
    THEN [Ok([self EXCEPT !.deprecated = TRUE]) EXCEPT !.consumed = FALSE]
    ELSE Err(self, unsupported_property(ident_or_default(meta.path)))

\* The older generation's struct has the tag alone.
legacy_AideDocsAttributes_default == [tag |-> None]

\* AideDocsAttributes::parse (src/lib.rs): `tag` is the only key.
legacy_AideDocsAttributes_parse(self, meta) ==
    IF is_ident(meta.path, "tag")
    THEN IF meta.value = "None" THEN Err(self, Message("expected =", <<>>))
         ELSE IF meta.value # "Str" THEN Err(self, Message("expected string literal", <<>>))
         ELSE Ok([self EXCEPT !.tag = Some(meta.lit)])
    ELSE Err(self, unsupported_property(ident_or_default(meta.path)))

\* parse_macro_input!(args with parser(|meta| attrs.parse(meta))): the closure
\* runs on each nested meta in turn; the first error ends the expansion, and
\* so does a value the closure left unread (syn then expects `,`).
RECURSIVE parse_args(_, _, _)
parse_args(which, self, metas) ==
    IF metas = <<>> THEN Ok(self)
    ELSE LET meta == Head(metas)
             r == IF which = "aide-docs"
                  THEN AideDocsAttributes_parse(self, meta)
                  ELSE legacy_AideDocsAttributes_parse(self, meta)
         IN IF ~r.ok THEN r
            ELSE IF ~r.consumed /\ meta.value # "None"
                 THEN Err(r.self, Message("expected ,", <<>>))
                 ELSE parse_args(which, r.self, Tail(metas))

----------------------------------------------------------------------------
(* Code generation                                                         *)

Letters == {"a", "b", "c", "d", "e", "f", "g", "h", "i", "j", "k", "l", "m",
            "n", "o", "p", "q", "r", "s", "t", "u", "v", "w", "x", "y", "z"}
IsIdentChar(c) == c \in Letters \cup {"_"}
PunctChars == {".", ";", "=", ","}

Ident(text)       == [kind |-> "ident", text |-> text]
Punct(c)          == [kind |-> "punct", text |-> <<c>>]
Lit(text, suffix) == [kind |-> "lit", text |-> text, suffix |-> suffix]
Open              == [kind |-> "open"]
Close             == [kind |-> "close"]

\* The length of the run of identifier characters s starts with.
RECURSIVE ident_len(_)
ident_len(s) ==
    IF s = <<>> THEN 0
    ELSE IF IsIdentChar(Head(s)) THEN 1 + ident_len(Tail(s)) ELSE 0

\* The inside of a string literal, after its opening quote: up to the first
\* quote no backslash escapes, with \" \\ and \n read as the character they
\* stand for. No closing quote, or another escape, is a lexical error.
RECURSIVE lex_str(_, _)
lex_str(s, val) ==
    IF s = <<>> THEN [ok |-> FALSE, value |-> val, rest |-> <<>>]
    ELSE IF Head(s) = DQ THEN [ok |-> TRUE, value |-> val, rest |-> Tail(s)]
    ELSE IF Head(s) = BS
         THEN IF Len(s) < 2 THEN [ok |-> FALSE, value |-> val, rest |-> <<>>]
              ELSE IF s[2] \in {DQ, BS}
                   THEN lex_str(Tail(Tail(s)), Append(val, s[2]))
              ELSE IF s[2] = "n"
                   THEN lex_str(Tail(Tail(s)), Append(val, NL))
              ELSE [ok |-> FALSE, value |-> val, rest |-> <<>>]
    ELSE lex_str(Tail(s), Append(val, Head(s)))

\* TokenStream::from_str: the tokens of s, or a LexError (ok = FALSE) for an
\* unterminated string, an unknown character or an unbalanced delimiter.
RECURSIVE from_str(_, _, _)
from_str(s, depth, acc) ==
    IF s = <<>> THEN [ok |-> depth = 0, toks |-> acc]
    ELSE LET c == Head(s) IN
         IF is_whitespace(c) THEN from_str(Tail(s), depth, acc)
         ELSE IF IsIdentChar(c)
         THEN LET n == ident_len(s)
              IN from_str(SubSeq(s, n + 1, Len(s)), depth,
                          Append(acc, Ident(SubSeq(s, 1, n))))
         ELSE IF c = DQ
         THEN LET r == lex_str(Tail(s), <<>>)
                  n == ident_len(r.rest)
              IN IF ~r.ok THEN [ok |-> FALSE, toks |-> acc]
                 ELSE from_str(SubSeq(r.rest, n + 1, Len(r.rest)), depth,
                               Append(acc, Lit(r.value, SubSeq(r.rest, 1, n))))
         ELSE IF c = "(" THEN from_str(Tail(s), depth + 1, Append(acc, Open))
         ELSE IF c = ")"
         THEN IF depth = 0 THEN [ok |-> FALSE, toks |-> acc]
              ELSE from_str(Tail(s), depth - 1, Append(acc, Close))
         ELSE IF c \in PunctChars
         THEN from_str(Tail(s), depth, Append(acc, Punct(c)))
         ELSE [ok |-> FALSE, toks |-> acc]

\* tokens_from_string: TokenStream::from_str(&string).unwrap(), which panics on
\* a LexError.
tokens_from_string(string) ==
    LET r == from_str(string, 0, <<>>)
    IN [panicked |-> ~r.ok, tokens |-> IF r.ok THEN r.toks ELSE <<>>]

\* proc_macro2::TokenStream::default()
TokenStream_default == [panicked |-> FALSE, tokens |-> <<>>]

\* format!(r#".tag("{}")"#, tag)
format_tag(tag) == <<".", "t", "a", "g", "(", DQ>> \o tag \o <<DQ, ")">>

\* let tag_snippet = match attrs.tag { Some(tag) => ..., None => default }
make_tag_snippet(tag) ==
    IF tag # None THEN tokens_from_string(format_tag(tag[1]))
    ELSE TokenStream_default

\* r#"op.inner_mut().deprecated = true;"#
deprecated_stmt ==
    <<"o", "p", ".", "i", "n", "n", "e", "r", "_", "m", "u", "t", "(", ")", ".",
      "d", "e", "p", "r", "e", "c", "a", "t", "e", "d", SP, "=", SP,
      "t", "r", "u", "e", ";">>

\* let deprecated_snippet = match attrs.deprecated { true => ..., false => default }
make_deprecated_snippet(deprecated) ==
    IF deprecated THEN tokens_from_string(deprecated_stmt)
    ELSE TokenStream_default

\* The prefix in format!("__aide_docs_{}", input.sig.ident)
aide_docs_prefix == <<"_", "_", "a", "i", "d", "e", "_", "d", "o", "c", "s", "_">>

\* let aide_docs_fn = tokens_from_string(format!("__aide_docs_{}", ident))
make_aide_docs_fn(ident) == tokens_from_string(aide_docs_prefix \o ident)

\* The older generation: None => tokens_from_string(String::default())
legacy_make_tag_method(tag) ==
    IF tag # None THEN tokens_from_string(format_tag(tag[1]))
    ELSE tokens_from_string(<<>>)

\* The older generation's prefix, in format!("aide_docs_{}", input.sig.ident)
legacy_aide_docs_prefix == <<"a", "i", "d", "e", "_", "d", "o", "c", "s", "_">>

legacy_make_aide_docs_fn(ident) == tokens_from_string(legacy_aide_docs_prefix \o ident)

\* quote! { pub fn #aide_docs_fn() -> impl FnOnce(..) { move |op| {
\*     let mut op = op.summary(#summary).description(#description)#tag_snippet;
\*     #deprecated_snippet
\*     op } } }
\* #summary and #description are interpolated as string literals; the snippets
\* are spliced in as the tokens they are.
quote_expanded(name, sum, desc, tag_toks, dep_toks) ==
    [name  |-> name,
     chain |-> <<Punct("."), Ident(<<"s", "u", "m", "m", "a", "r", "y">>), Open,
                 Lit(sum, <<>>), Close,
                 Punct("."), Ident(<<"d", "e", "s", "c", "r", "i", "p", "t", "i", "o", "n">>),
                 Open, Lit(desc, <<>>), Close>> \o tag_toks,
     stmts |-> dep_toks]

\* The older generation: move |op| { op.summary(#summary).description(#description)#tag_method }
legacy_quote_expanded(name, sum, desc, tag_toks) ==
    quote_expanded(name, sum, desc, tag_toks, <<>>)

----------------------------------------------------------------------------
(* Registration: with_aide_docs! and the call of the generated closure     *)

\* with_aide_docs!(method, handler), expanded by paste:
\*   aide::axum::routing::[<method _with>](handler, [<__aide_docs_ handler>]())
with_aide_docs(method, handler) ==
    [routing  |-> method \o <<"_", "w", "i", "t", "h">>,
     handler  |-> handler,
     docs_fn  |-> <<"_", "_", "a", "i", "d", "e", "_", "d", "o", "c", "s", "_">> \o handler]

\* Operation::default(), as far as the closure touches it.
Operation_default ==
    [summary |-> None, description |-> None, tags |-> <<>>, deprecated |-> FALSE]

Call(method, arg) == [method |-> method, arg |-> arg]
call_summary     == <<"s", "u", "m", "m", "a", "r", "y">>
call_description == <<"d", "e", "s", "c", "r", "i", "p", "t", "i", "o", "n">>
call_tag         == <<"t", "a", "g">>
call_deprecated  == <<"d", "e", "p", "r", "e", "c", "a", "t", "e", "d">>

\* The method-call chain the compiler reads off the tokens that follow `op`:
\* a run of `.method("literal")`. Anything else does not compile (ok = FALSE).
RECURSIVE method_calls(_)
method_calls(toks) ==
    IF toks = <<>> THEN [ok |-> TRUE, calls |-> <<>>]
    ELSE IF /\ Len(toks) >= 5
            /\ toks[1] = Punct(".")
            /\ toks[2].kind = "ident"
            /\ toks[2].text \in {call_summary, call_description, call_tag}
            /\ toks[3] = Open
            /\ toks[4].kind = "lit"
            /\ toks[4].suffix = <<>>
            /\ toks[5] = Close
         THEN LET r == method_calls(SubSeq(toks, 6, Len(toks)))
              IN [ok |-> r.ok, calls |-> <<Call(toks[2].text, toks[4].text)>> \o r.calls]
         ELSE [ok |-> FALSE, calls |-> <<>>]

\* The calls of the generated closure's body, in order:
\*   let mut op = op<chain>; <stmts> op
closure_calls(gen) ==
    LET r == method_calls(gen.chain)
        dep == tokens_from_string(deprecated_stmt).tokens
    IN IF ~r.ok THEN r
       ELSE IF gen.stmts = <<>> THEN r
       ELSE IF gen.stmts = dep
            THEN [ok |-> TRUE,
                  calls |-> r.calls \o <<Call(call_deprecated, <<"t", "r", "u", "e">>)>>]
       ELSE [ok |-> FALSE, calls |-> <<>>]

\* TransformOperation::summary / description / tag (a tag already there is not
\* added twice) and op.inner_mut().deprecated = true
apply_call(o, c) ==
    IF c.method = call_summary THEN [o EXCEPT !.summary = Some(c.arg)]
    ELSE IF c.method = call_description THEN [o EXCEPT !.description = Some(c.arg)]
    ELSE IF c.method = call_tag
         THEN IF \E i \in 1..Len(o.tags) : o.tags[i] = c.arg THEN o
              ELSE [o EXCEPT !.tags = Append(@, c.arg)]
    ELSE [o EXCEPT !.deprecated = TRUE]

RECURSIVE apply_calls(_, _)
apply_calls(o, cs) ==
    IF cs = <<>> THEN o ELSE apply_calls(apply_call(o, Head(cs)), Tail(cs))

----------------------------------------------------------------------------
(* TagApiRouter (aide-axum-utils/src/lib.rs:18-49)                         *)

\* A route's documentation entry: where it is mounted, its method and the tags
\* of its operation. `via` and `given` record how the route came into the
\* router and the tags it had when it was handed over.
Route(path, o, via) ==
    [path |-> path, method |-> o.method, tags |-> o.tags, via |-> via,
     given |-> o.given]

\* An operation of a method router, as get_with(handler, docs) builds it.
Operation(method, tags) == [method |-> method, tags |-> tags, given |-> tags]

HasTag(tags, tag) == \E i \in 1..Len(tags) : tags[i] = tag

\* TransformPathItem::tag: the tag is added to every operation of the path
\* item that does not carry it yet.
PathItem_tag(item, tag) ==
    {[o EXCEPT !.tags = IF HasTag(@, tag) THEN @ ELSE Append(@, tag)] : o \in item}

\* ApiRouter::new()
ApiRouter_new == {}

\* axum panics when a method is registered twice for one path.
Overlaps(router, routes) ==
    \E a \in router, b \in routes : a.path = b.path /\ a.method = b.method

\* ApiRouter::api_route_with(path, method_router, transform): the transform is
\* applied to the method router's path item, which is then added to the
\* router; `item` is the path item as the transform returned it.
ApiRouter_api_route_with(router, path, item) ==
    router \cup {Route(path, o, "api_route") : o \in item}

\* ApiRouter::nest(path, router): the sub-router's routes, under the prefix.
ApiRouter_nest(router, path, sub) ==
    router \cup {[r EXCEPT !.path = path \o @, !.via = "nest", !.given = r.tags] : r \in sub}

\* TagApiRouter::new(tag)
TagApiRouter_new(tag) == [inner |-> ApiRouter_new, tag |-> tag]

\* An api_route that registers the route and forgets the tag.
api_route_without_tag(self, path, method_router) ==
    [self EXCEPT !.inner =
        ApiRouter_api_route_with(self.inner, path, method_router)]

\* TagApiRouter::api_route(self, path, method_router)
TagApiRouter_api_route(self, path, method_router) ==
    [self EXCEPT !.inner =
        ApiRouter_api_route_with(self.inner, path,
                                 PathItem_tag(method_router, self.tag))]

\* TagApiRouter::nest(self, path, router)
TagApiRouter_nest(self, path, router) ==
    [self EXCEPT !.inner = ApiRouter_nest(self.inner, path, router)]

\* impl From<TagApiRouter<S>> for ApiRouter<S>
ApiRouter_from(value) == value.inner

\* No Tagged Router is being built.
RouterIdle ==
    /\ r_pc = "idle"
    /\ r_tag = <<>>
    /\ r_inner = {}
    /\ r_out = None
    /\ r_calls = 0

----------------------------------------------------------------------------
(* Response adapters (aide-axum-utils/src/lib.rs:59-80 and 144-224)        *)

\* StatusCode::NO_CONTENT
NO_CONTENT == 204

NoContent            == [ty |-> "NoContent"]
WithHeaderMap(h, v)  == [ty |-> "WithHeaderMap", headers |-> h, inner |-> v]
WithStatusCode(c, v) == [ty |-> "WithStatusCode", status |-> c, inner |-> v]
TextPlain(v)         == [ty |-> "TextPlain", inner |-> v]
\* The inner values the adapters wrap: a String and axum's Bytes.
StringValue          == [ty |-> "String"]
BytesValue           == [ty |-> "Bytes"]

Response(status, headers, body) ==
    [status |-> status, headers |-> headers, body |-> body]

NoHeaders == [n \in {} |-> ""]

\* (StatusCode, R)::into_response: R's response with the status replaced.
with_status(code, res) == [res EXCEPT !.status = code]

\* (HeaderMap, R)::into_response: R's response, its headers extended by the
\* map, whose values replace those of the same name.
with_headers(h, res) ==
    [res EXCEPT !.headers =
        [n \in DOMAIN h \cup DOMAIN @ |-> IF n \in DOMAIN h THEN h[n] ELSE @[n]]]

\* ().into_response(): 200 and an empty body.
unit_into_response == Response(200, NoHeaders, "")

RECURSIVE into_response(_)

\* impl IntoResponse for NoContent
NoContent_into_response(self) == with_status(NO_CONTENT, unit_into_response)

\* impl IntoResponse for WithHeaderMap<T>
WithHeaderMap_into_response(self) == with_headers(self.headers, into_response(self.inner))

\* impl IntoResponse for WithStatusCode<T>
WithStatusCode_into_response(self) == with_status(self.status, into_response(self.inner))

\* impl IntoResponse for TextPlain<T>
TextPlain_into_response(self) == into_response(self.inner)

\* IntoResponse, by type; String and Bytes answer 200 with their content type.
into_response(v) ==
    CASE v.ty = "NoContent"      -> NoContent_into_response(v)
      [] v.ty = "WithHeaderMap"  -> WithHeaderMap_into_response(v)
      [] v.ty = "WithStatusCode" -> WithStatusCode_into_response(v)
      [] v.ty = "TextPlain"      -> TextPlain_into_response(v)
      [] v.ty = "String" ->
            Response(200, [n \in {"content-type"} |-> "text/plain; charset=utf-8"], "text")
      [] v.ty = "Bytes" ->
            Response(200, [n \in {"content-type"} |-> "application/octet-stream"], "bytes")

\* A documented response: its description and, per content type, the schema.
OpenApiResponse(text, content) ==
    [description |-> text, content |-> content]

\* <() as OperationOutput>::operation_response: no content.
unit_operation_response == OpenApiResponse("no content", {})

\* TextPlain::operation_response: "plain text", and under "text/plain" the
\* schema ctx.schema.subschema_for::<String>() gives.
TextPlain_operation_response ==
    OpenApiResponse("plain text", {<<"text/plain", "string schema">>})

RECURSIVE inferred_responses(_)

\* impl OperationOutput for NoContent
NoContent_inferred_responses(T) == <<<<Some(NO_CONTENT), unit_operation_response>>>>

\* impl OperationOutput for WithHeaderMap<T>
WithHeaderMap_inferred_responses(T) == inferred_responses(T.inner)

\* impl OperationOutput for WithStatusCode<T>
WithStatusCode_inferred_responses(T) == inferred_responses(T.inner)

\* A TextPlain that reports what its inner type reports.
TextPlain_infers_as_inner(T) == inferred_responses(T.inner)

\* impl OperationOutput for TextPlain<T>
TextPlain_inferred_responses(T) == <<<<Some(200), TextPlain_operation_response>>>>

\* OperationOutput::inferred_responses, by type (a type is a value without its
\* run-time data); String and Bytes report 200 with their content type.
inferred_responses(T) ==
    CASE T.ty = "NoContent"      -> NoContent_inferred_responses(T)
      [] T.ty = "WithHeaderMap"  -> WithHeaderMap_inferred_responses(T)
      [] T.ty = "WithStatusCode" -> WithStatusCode_inferred_responses(T)
      [] T.ty = "TextPlain"      -> TextPlain_inferred_responses(T)
      [] T.ty = "String" ->
            <<<<Some(200), OpenApiResponse("", {<<"text/plain; charset=utf-8", "string schema">>})>>>>
      [] T.ty = "Bytes" ->
            <<<<Some(200), OpenApiResponse("", {<<"application/octet-stream", "bytes schema">>})>>>>

\* No handler's return type is being looked at.
RespIdle ==
    /\ x_pc = "idle"
    /\ x_type = <<>>
    /\ x_docs = <<>>
    /\ x_value = None
    /\ x_resp = None

\* No macro is being expanded.
MacroIdle ==
    /\ crate = "aide-docs"
    /\ item_attrs = <<>>
    /\ item_ident = <<>>
    /\ args = <<>>
    /\ pc = "idle"
    /\ doc_lines = <<>>
    /\ summary = <<>>
    /\ description = <<>>
    /\ attrs = AideDocsAttributes_default
    /\ parse_error = None
    /\ tag_snippet = <<>>
    /\ deprecated_snippet = <<>>
    /\ aide_docs_fn = <<>>
    /\ expanded = None
    /\ op0 = Operation_default
    /\ op = Operation_default
    /\ calls = <<>>

----------------------------------------------------------------------------
(* Inputs                                                                  *)

MaxDocLen == 1      \* doc-comment values of every length up to this
MaxAttrs  == 3      \* attributes on a handler
MaxTagLen == 2      \* tag literals of every length up to this
MaxArgs   == 2      \* arguments of one #[aide_docs(...)]

\* All sequences over A of length at most n.
SeqsUpTo(A, n) == UNION {[1..k -> A] : k \in 0..n}

DocChars == {"a", SP, NL}

\* What `///` lines and #[doc = "..."] attributes carry: every short value,
\* and a padded and a two-line one.
DocValues ==
    SeqsUpTo(DocChars, MaxDocLen) \cup {<<SP, "a", SP>>, <<"a", NL, "a">>}

Attributes ==
    {DocAttr(v) : v \in DocValues}
    \cup {[path |-> "doc", meta |-> "List", lit |-> "None", value |-> <<>>],
          [path |-> "inline", meta |-> "Path", lit |-> "None", value |-> <<>>],
          [path |-> "export_name", meta |-> "NameValue", lit |-> "Str",
           value |-> <<"a">>]}

AttrLists == SeqsUpTo(Attributes, MaxAttrs)

TagChars == {"a", DQ, BS}
TagValues == SeqsUpTo(TagChars, MaxTagLen)

Metas ==
    {Meta(<<"tag">>, "Str", v) : v \in TagValues}
    \cup {Meta(<<"tag">>, "None", <<>>),
          Meta(<<"tag">>, "Int", <<>>),
          Meta(<<"deprecated">>, "None", <<>>),
          Meta(<<"deprecated">>, "Str", <<"a">>),
          Meta(<<"foo">>, "None", <<>>),
          Meta(<<"foo">>, "Str", <<"a">>),
          Meta(<<"foo", "bar">>, "None", <<>>)}

ArgLists == SeqsUpTo(Metas, MaxArgs)

Crates == {"aide-docs", "aide-macros"}
Methods == {<<"g", "e", "t">>}

\* Two handlers: an undocumented one whose route has a fresh operation, and a
\* documented one whose route's operation already carries the tag "a".
Handlers ==
    {[ident |-> <<"h">>, attrs |-> <<>>, op |-> Operation_default],
     [ident |-> <<"_", "g">>,
      attrs |-> <<DocAttr(<<"a">>), DocAttr(<<"a", "a">>)>>,
      op |-> [Operation_default EXCEPT !.tags = <<<<"a">>>>]]}

----------------------------------------------------------------------------
(* The expansion of #[aide_docs(args)] on a handler, statement by          *)
(* statement, and the registration of the handler                          *)

MacroStart ==
    /\ pc = "start"
    /\ doc_lines = <<>>
    /\ summary = <<>>
    /\ description = <<>>
    /\ attrs = IF crate = "aide-docs" THEN AideDocsAttributes_default
               ELSE legacy_AideDocsAttributes_default
    /\ parse_error = None
    /\ tag_snippet = <<>>
    /\ deprecated_snippet = <<>>
    /\ aide_docs_fn = <<>>
    /\ expanded = None
    /\ op = op0
    /\ calls = <<>>
    /\ RouterIdle
    /\ RespIdle

\* Handlers with every short list of attributes, and no arguments.
InitDocs ==
    /\ crate = "aide-docs"
    /\ item_attrs \in AttrLists
    /\ item_ident = <<"h">>
    /\ args = <<>>
    /\ op0 = Operation_default
    /\ MacroStart

\* Handlers with every short list of arguments.
InitMacro ==
    /\ crate \in Crates
    /\ \E h \in Handlers :
         /\ item_attrs = h.attrs
         /\ item_ident = h.ident
         /\ op0 = h.op
    /\ args \in ArgLists
    /\ MacroStart

\* let doc_lines = collect_doc_comments(&input.attrs);
Collect ==
    /\ pc = "start"
    /\ doc_lines' = collect_doc_comments(item_attrs)
    /\ pc' = "collected"
    /\ UNCHANGED <<crate, item_attrs, item_ident, args, summary, description,
                   attrs, parse_error, tag_snippet, deprecated_snippet,
                   aide_docs_fn, expanded, op0, op, calls>>
    /\ UNCHANGED <<routerVars, respVars>>

\* let (summary, description) = split_summary_description(&doc_lines);
Split ==
    /\ pc = "collected"
    /\ LET r == split_summary_description(doc_lines)
       IN /\ summary' = r[1]
          /\ description' = r[2]
    /\ pc' = "split"
    /\ UNCHANGED <<crate, item_attrs, item_ident, args, doc_lines, attrs,
                   parse_error, tag_snippet, deprecated_snippet, aide_docs_fn,
                   expanded, op0, op, calls>>
    /\ UNCHANGED <<routerVars, respVars>>

\* parse_macro_input!(args with aide_docs_parser): on an error the macro
\* returns the compile error and nothing else.
ParseArgs ==
    /\ pc = "split"
    /\ LET r == parse_args(crate, attrs, args)
       IN /\ attrs' = r.self
          /\ parse_error' = r.error
          /\ pc' = IF r.ok THEN "parsed" ELSE "error"
    /\ UNCHANGED <<crate, item_attrs, item_ident, args, doc_lines, summary,
                   description, tag_snippet, deprecated_snippet, aide_docs_fn,
                   expanded, op0, op, calls>>
    /\ UNCHANGED <<routerVars, respVars>>

\* let tag_snippet = ...; let deprecated_snippet = ...; let aide_docs_fn = ...;
\* a panic of tokens_from_string ends the expansion.
Snippets ==
    /\ pc = "parsed"
    /\ LET t == IF crate = "aide-docs" THEN make_tag_snippet(attrs.tag)
                ELSE legacy_make_tag_method(attrs.tag)
           d == IF crate = "aide-docs" THEN make_deprecated_snippet(attrs.deprecated)
                ELSE TokenStream_default
           f == IF crate = "aide-docs" THEN make_aide_docs_fn(item_ident)
                ELSE legacy_make_aide_docs_fn(item_ident)
       IN /\ tag_snippet' = t.tokens
          /\ deprecated_snippet' = IF t.panicked THEN <<>> ELSE d.tokens
          /\ aide_docs_fn' = IF t.panicked \/ d.panicked THEN <<>> ELSE f.tokens
          /\ pc' = IF t.panicked \/ d.panicked \/ f.panicked
                   THEN "panicked" ELSE "snippets"
    /\ UNCHANGED <<crate, item_attrs, item_ident, args, doc_lines, summary,
                   description, attrs, parse_error, expanded, op0, op, calls>>
    /\ UNCHANGED <<routerVars, respVars>>

\* let expanded = quote! { #input pub fn #aide_docs_fn() ... };
Expand ==
    /\ pc = "snippets"
    /\ expanded' = Some(IF crate = "aide-docs"
                        THEN quote_expanded(aide_docs_fn, summary, description,
                                            tag_snippet, deprecated_snippet)
                        ELSE legacy_quote_expanded(aide_docs_fn, summary,
                                                   description, tag_snippet))
    /\ pc' = "expanded"
    /\ UNCHANGED <<crate, item_attrs, item_ident, args, doc_lines, summary,
                   description, attrs, parse_error, tag_snippet,
                   deprecated_snippet, aide_docs_fn, op0, op, calls>>
    /\ UNCHANGED <<routerVars, respVars>>

\* with_aide_docs!(method, handler) at the call site: the name it builds must
\* be the generated function's, the generated function must compile, and the
\* routing function then runs the closure on the route's operation.
Register ==
    /\ pc = "expanded"
    /\ \E method \in Methods :
         LET w == with_aide_docs(method, item_ident)
             r == closure_calls(expanded[1])
         IN IF expanded[1].name # <<Ident(w.docs_fn)>>
            THEN /\ pc' = "unresolved"
                 /\ UNCHANGED <<op, calls>>
            ELSE IF ~r.ok
            THEN /\ pc' = "rejected"
                 /\ UNCHANGED <<op, calls>>
            ELSE /\ pc' = "applied"
                 /\ calls' = r.calls
                 /\ op' = apply_calls(op0, r.calls)
    /\ UNCHANGED <<crate, item_attrs, item_ident, args, doc_lines, summary,
                   description, attrs, parse_error, tag_snippet,
                   deprecated_snippet, aide_docs_fn, expanded, op0>>
    /\ UNCHANGED <<routerVars, respVars>>

MacroNext == Collect \/ Split \/ ParseArgs \/ Snippets \/ Expand \/ Register

SpecDocs == InitDocs /\ [][MacroNext]_vars
SpecMacro == InitMacro /\ [][MacroNext]_vars

----------------------------------------------------------------------------
(* Building a Tagged Router                                                *)

MaxCalls == 3       \* api_route and nest calls on one Tagged Router

Tags == {"Billing", "Other"}
Paths == {<<"a">>, <<"b">>}
RouteMethods == {"get", "post"}

\* The tags a handler's own documentation gives its operation.
OwnTags == {<<>>, <<"Other">>, <<"Billing">>}

\* Method routers: one method, or get and post together.
MethodRouters ==
    {{Operation(m, t)} : m \in RouteMethods, t \in OwnTags}
    \cup {{Operation("get", t), Operation("post", <<>>)} : t \in OwnTags}

\* Plain routers built elsewhere, handed to nest.
SubRouters ==
    {ApiRouter_api_route_with(ApiRouter_new, p, {Operation("get", t)}) :
        p \in Paths, t \in OwnTags}

\* TagApiRouter::new(tag)
InitRouter ==
    /\ \E tag \in Tags :
         LET self == TagApiRouter_new(tag)
         IN /\ r_tag = self.tag
            /\ r_inner = self.inner
    /\ r_pc = "building"
    /\ r_out = None
    /\ r_calls = 0
    /\ MacroIdle
    /\ RespIdle

\* self.api_route(path, method_router)
ApiRoute ==
    /\ r_pc = "building"
    /\ r_calls < MaxCalls
    /\ \E path \in Paths, mr \in MethodRouters :
         LET self == TagApiRouter_api_route([inner |-> r_inner, tag |-> r_tag], path, mr)
         IN IF Overlaps(r_inner, {Route(path, o, "api_route") : o \in mr})
            THEN /\ r_pc' = "panicked"
                 /\ UNCHANGED <<r_inner, r_tag>>
            ELSE /\ r_inner' = self.inner
                 /\ r_tag' = self.tag
                 /\ r_pc' = "building"
    /\ r_calls' = r_calls + 1
    /\ UNCHANGED <<r_out, macroVars, respVars>>

\* self.nest(path, router)
Nest ==
    /\ r_pc = "building"
    /\ r_calls < MaxCalls
    /\ \E path \in Paths, sub \in SubRouters :
         LET self == TagApiRouter_nest([inner |-> r_inner, tag |-> r_tag], path, sub)
         IN IF Overlaps(r_inner, ApiRouter_nest(ApiRouter_new, path, sub))
            THEN /\ r_pc' = "panicked"
                 /\ UNCHANGED <<r_inner, r_tag>>
            ELSE /\ r_inner' = self.inner
                 /\ r_tag' = self.tag
                 /\ r_pc' = "building"
    /\ r_calls' = r_calls + 1
    /\ UNCHANGED <<r_out, macroVars, respVars>>

\* ApiRouter::from(self): the conversion consumes the Tagged Router.
Convert ==
    /\ r_pc = "building"
    /\ r_out' = Some(ApiRouter_from([inner |-> r_inner, tag |-> r_tag]))
    /\ r_pc' = "converted"
    /\ UNCHANGED <<r_tag, r_inner, r_calls, macroVars, respVars>>

RouterNext == ApiRoute \/ Nest \/ Convert

SpecRouter == InitRouter /\ [][RouterNext]_vars

----------------------------------------------------------------------------
(* Documenting and answering with a response adapter                       *)

MaxDepth == 2       \* adapters nested in a handler's return type

StatusCodes == {200, 201, 404}
HeaderMaps == {NoHeaders, [n \in {"content-type"} |-> "text/html"]}

\* The values of nesting depth at most d.
RECURSIVE Values(_)
Values(d) ==
    IF d = 0 THEN {NoContent, StringValue, BytesValue}
    ELSE LET V == Values(d - 1)
         IN V \cup {WithHeaderMap(h, v) : h \in HeaderMaps, v \in V}
              \cup {WithStatusCode(c, v) : c \in StatusCodes, v \in V}
              \cup {TextPlain(v) : v \in V}

\* The type of a value: the value without its run-time data.
RECURSIVE TypeOf(_)
TypeOf(v) ==
    CASE v.ty = "WithHeaderMap"  -> [ty |-> v.ty, inner |-> TypeOf(v.inner)]
      [] v.ty = "WithStatusCode" -> [ty |-> v.ty, inner |-> TypeOf(v.inner)]
      [] v.ty = "TextPlain"      -> [ty |-> v.ty, inner |-> TypeOf(v.inner)]
      [] OTHER -> v

\* A handler is declared with some return type.
InitResp ==
    /\ x_type \in {TypeOf(v) : v \in Values(MaxDepth)}
    /\ x_pc = "declared"
    /\ x_docs = <<>>
    /\ x_value = None
    /\ x_resp = None
    /\ MacroIdle
    /\ RouterIdle

\* Documentation generation: T::inferred_responses(ctx, operation)
InferResponses ==
    /\ x_pc = "declared"
    /\ x_docs' = inferred_responses(x_type)
    /\ x_pc' = "documented"
    /\ UNCHANGED <<x_type, x_value, x_resp, macroVars, routerVars>>

\* A request: the handler returns a value of its type, axum calls into_response.
Respond ==
    /\ x_pc \in {"documented", "responded"}
    /\ \E v \in Values(MaxDepth) :
         /\ TypeOf(v) = x_type
         /\ x_value' = Some(v)
         /\ x_resp' = Some(into_response(v))
    /\ x_pc' = "responded"
    /\ UNCHANGED <<x_type, x_docs, macroVars, routerVars>>

RespNext == InferResponses \/ Respond

SpecResp == InitResp /\ [][RespNext]_vars

----------------------------------------------------------------------------
(* Properties of the documentation extraction (SpecDocs)                   *)

Collected == pc \notin {"start"}
SplitDone == pc \notin {"start", "collected"}

\* The values of the documentation-comment attributes among as, in order.
DocCommentValues(as) ==
    LET docs == SelectSeq(as, LAMBDA a : a.path = "doc" /\ a.meta = "NameValue"
                                         /\ a.lit = "Str")
    IN [i \in 1..Len(docs) |-> docs[i].value]

\* The trimmed values of vs whose trimmed value is not empty, in order.
TrimmedNonEmpty(vs) ==
    SelectSeq([i \in 1..Len(vs) |-> trim(vs[i])], LAMBDA v : v # <<>>)

\* C1: collect_doc_comments returns exactly the trimmed values of the handler's
\* doc-comment attributes whose trimmed value is non-empty, in declaration
\* order; no returned line is the empty string.
C1_CollectedAreTrimmedNonEmpty ==
    Collected =>
        /\ doc_lines = TrimmedNonEmpty(DocCommentValues(item_attrs))
        /\ \A i \in 1..Len(doc_lines) : doc_lines[i] # <<>>

\* ss with a newline between consecutive elements, built from the left.
RECURSIVE NewlineJoined(_, _, _)
NewlineJoined(ss, k, acc) ==
    IF k > Len(ss) THEN acc
    ELSE NewlineJoined(ss, k + 1, IF k = 1 THEN ss[1] ELSE acc \o <<NL>> \o ss[k])

\* C2: split_summary_description(L) gives the first element of L as summary and
\* the remaining elements joined with "\n", in order, as description; both are
\* "" for L = [], and the description is "" for a one-element L.
C2_SplitFirstAndJoinedRest ==
    SplitDone =>
        /\ doc_lines = <<>> => summary = <<>> /\ description = <<>>
        /\ doc_lines # <<>> =>
             /\ summary = doc_lines[1]
             /\ description = NewlineJoined(Tail(doc_lines), 1, <<>>)
        /\ Len(doc_lines) = 1 => description = <<>>

\* Three lines were split: the description holds two of them and a newline.
C2_Witness ==
    /\ pc = "split"
    /\ Len(doc_lines) = 3
    /\ doc_lines[2] # <<>>
    /\ doc_lines[2] # doc_lines[3]
    /\ description = doc_lines[2] \o <<NL>> \o doc_lines[3]

\* C8: the summary that collect_doc_comments and split_summary_description
\* produce contains no newline character.
C8_SummaryHasNoNewline ==
    SplitDone => \A i \in 1..Len(summary) : summary[i] # NL

----------------------------------------------------------------------------
(* Properties of the argument parsing and the generated code (SpecMacro)   *)

ParseDone == pc \notin {"start", "collected", "split"}
ParseOk   == ParseDone /\ pc # "error"
Finished  == pc \in {"error", "panicked", "unresolved", "rejected", "applied"}

OtherKey(meta) == meta.path \notin {<<"tag">>, <<"deprecated">>}
HasKey(name)   == \E i \in 1..Len(args) : args[i].path = <<name>>

\* The argument the parser stops at: the first that is neither `tag = "..."`
\* nor a bare `deprecated`; 0 if there is none.
FirstRefused ==
    LET refused == {i \in 1..Len(args) :
                      ~ \/ args[i].path = <<"tag">> /\ args[i].value = "Str"
                        \/ args[i].path = <<"deprecated">> /\ args[i].value = "None"}
    IN IF refused = {} THEN 0
       ELSE CHOOSE i \in refused : \A j \in refused : i <= j

\* What C3 says of accepted keys, of the outcome of another key and of the
\* defaults; the error's wording is left to the two formulas below.
C3_KeysAndDefaults ==
    /\ (\E i \in 1..Len(args) : OtherKey(args[i])) => pc = "error" /\ expanded = None
    /\ ParseOk =>
         /\ \A i \in 1..Len(args) : ~OtherKey(args[i])
         /\ ~HasKey("tag") => attrs.tag = None
         /\ ~HasKey("deprecated") => attrs.deprecated = FALSE
         /\ parse_error = None

ExpectedCalls ==
    <<Call(call_summary, summary), Call(call_description, description)>>
    \o (IF attrs.tag # None THEN <<Call(call_tag, attrs.tag[1])>> ELSE <<>>)
    \o (IF attrs.deprecated THEN <<Call(call_deprecated, <<"t", "r", "u", "e">>)>>
        ELSE <<>>)

\* C4: for every handler and parsed arguments (tag, deprecated) the generated
\* closure sets the summary, sets the description, adds the tag iff `tag` was
\* given and sets deprecated = true iff `deprecated` was given, in that order.
C4_ClosureAppliesInOrder ==
    (crate = "aide-docs" /\ ParseOk /\ Finished) =>
        /\ pc = "applied"
        /\ calls = ExpectedCalls
        /\ op.summary = Some(summary)
        /\ op.description = Some(description)
        /\ op.deprecated = (op0.deprecated \/ attrs.deprecated)
        /\ IF attrs.tag = None THEN op.tags = op0.tags
           ELSE \E i \in 1..Len(op.tags) : op.tags[i] = attrs.tag[1]

\* C9: the companion function's name is the identifier with_aide_docs!
\* references, for every handler and every aide_docs in the repository, so the
\* handler can be registered through with_aide_docs!.
C9_CompanionNameIsTheOneReferenced ==
    expanded # None =>
        /\ \A m \in Methods :
             expanded[1].name = <<Ident(with_aide_docs(m, item_ident).docs_fn)>>
        /\ pc # "unresolved"

\* C10: for every accepted tag literal V, interpolating V into .tag("{}") and
\* re-tokenizing does not panic and yields the tokens of one call tag(V).
C10_TagSnippetIsOneTagCall ==
    (ParseOk /\ pc # "parsed" /\ attrs.tag # None) =>
        /\ pc # "panicked"
        /\ tag_snippet = <<Punct("."), Ident(call_tag), Open,
                           Lit(attrs.tag[1], <<>>), Close>>

----------------------------------------------------------------------------
(* Properties of the Tagged Router (SpecRouter)                            *)

\* Every route that came through api_route carries the bound tag, and every
\* route that came through nest has the tags its sub-router gave it.
RoutesTagged(router) ==
    \A r \in router :
        /\ r.via = "api_route" => HasTag(r.tags, r_tag)
        /\ r.via = "nest" => r.tags = r.given

\* C5: after any api_route and nest calls and the conversion to ApiRouter,
\* every route registered through api_route carries the tag T, every nested
\* route keeps exactly its sub-router's tags, and T never changes between
\* construction and conversion.
C5_TaggedRouter ==
    /\ [](r_pc = "converted" => RoutesTagged(r_out[1]))
    /\ [][r_tag' = r_tag]_vars

\* Converted: a route added by api_route whose handler had no tag of its own
\* now has the bound tag, beside a nested route that does not have it.
C5_Witness ==
    /\ r_pc = "converted"
    /\ \E a \in r_out[1], n \in r_out[1] :
         /\ a.via = "api_route" /\ a.given = <<>> /\ a.tags = <<r_tag>>
         /\ n.via = "nest" /\ ~HasTag(n.tags, r_tag) /\ n.tags # <<>>

----------------------------------------------------------------------------
(* Properties of the response adapters (SpecResp)                          *)

\* The status codes the documentation reports.
DocumentedStatuses == {x_docs[i][1][1] : i \in 1..Len(x_docs)}

\* C6: for each adapter and every value of its arguments and inner value, the
\* status code into_response emits is one inferred_responses reports.
C6_EmittedStatusIsDocumented ==
    x_pc = "responded" => x_resp[1].status \in DocumentedStatuses

\* C7: for TextPlain<T>, whatever T, inferred_responses is exactly one entry,
\* status 200, with the single content type "text/plain" and the string
\* schema; and into_response is the inner value's response, unchanged.
C7_TextPlain ==
    x_type.ty = "TextPlain" =>
        /\ x_pc # "declared" =>
             /\ Len(x_docs) = 1
             /\ x_docs[1][1] = Some(200)
             /\ x_docs[1][2].content = {<<"text/plain", "string schema">>}
        /\ x_pc = "responded" => x_resp[1] = into_response(x_value[1].inner)

\* TextPlain around a String sent with status 404: the documentation says 200
\* text/plain, the response is the inner one.
C7_Witness ==
    /\ x_pc = "responded"
    /\ x_type.ty = "TextPlain"
    /\ x_value[1].inner = WithStatusCode(404, StringValue)
    /\ x_resp[1].status = 404
    /\ x_resp[1].body = "text"
    /\ x_docs[1][1] = Some(200)

====
